---- MODULE Spec2Model ----
(***************************************************************************)
(* A model of get_slurm_conf.py: the probes of the node's hardware, the    *)
(* extractors that parse each probe's text (with their return_on_error     *)
(* fallbacks), and the two renderers get_slurm_conf and get_gres_conf.     *)
(*                                                                         *)
(* Text.  A Python string is modelled as a sequence of atoms.  An atom is  *)
(* a TLA+ string standing for a character, or for a run of characters that *)
(* the program never looks inside.  Every character the program tests for, *)
(* splits on or parses is an atom of its own: white space, the digits of a *)
(* number the program parses or prints, and the separators , : . / #.      *)
(* The characters of an accelerator name are one atom each, because the    *)
(* program sorts and compares those names.                                 *)
(***************************************************************************)
EXTENDS Integers, Sequences, FiniteSets, TLC

\* ------------------------------------------------------------------ text

SP == " "
NL == "\n"
Whitespace == {" ", "\t", "\n"}

DigitChars == <<"0", "1", "2", "3", "4", "5", "6", "7", "8", "9">>
IsDigit(c) == \E i \in 1..10 : DigitChars[i] = c
DigitVal(c) == (CHOOSE i \in 1..10 : DigitChars[i] = c) - 1

\* The order of the characters that occur in the strings the model compares,
\* as Python's byte-wise string comparison orders them (ASCII).
CharOrder ==
    <<" ", "0", "1", "2", "3", "4", "5", "6", "7", "8", "9",
      "A", "P", "T", "V", "a", "e", "l", "s">>
Ord(c) == CHOOSE i \in 1..Len(CharOrder) : CharOrder[i] = c

\* a < b for Python strings: lexicographic, a proper prefix is smaller.
RECURSIVE StrLess(_, _)
StrLess(a, b) ==
    IF b = <<>> THEN FALSE
    ELSE IF a = <<>> THEN TRUE
    ELSE IF Head(a) = Head(b) THEN StrLess(Tail(a), Tail(b))
    ELSE Ord(Head(a)) < Ord(Head(b))

StartsWith(s, prefix) ==
    /\ Len(prefix) <= Len(s)
    /\ SubSeq(s, 1, Len(prefix)) = prefix

EndsWith(s, suffix) ==
    /\ Len(suffix) <= Len(s)
    /\ SubSeq(s, Len(s) - Len(suffix) + 1, Len(s)) = suffix

\* s.replace(atom, "") and re.sub(atom, "", s): every occurrence removed.
Remove(s, atom) == SelectSeq(s, LAMBDA c : c # atom)

\* sep.join(parts)
RECURSIVE Join(_, _)
Join(sep, parts) ==
    IF parts = <<>> THEN <<>>
    ELSE IF Len(parts) = 1 THEN parts[1]
    ELSE parts[1] \o sep \o Join(sep, Tail(parts))

\* s.split(sep) for a one-character separator: always at least one part.
RECURSIVE SplitAcc(_, _, _)
SplitAcc(s, sep, cur) ==
    IF s = <<>> THEN <<cur>>
    ELSE IF Head(s) = sep THEN <<cur>> \o SplitAcc(Tail(s), sep, <<>>)
    ELSE SplitAcc(Tail(s), sep, Append(cur, Head(s)))

Split(s, sep) == SplitAcc(s, sep, <<>>)

\* s.splitlines(): lines without their line ends; no empty last line.
SplitLines(s) ==
    LET parts == Split(s, NL)
    IN  IF parts[Len(parts)] = <<>> THEN SubSeq(parts, 1, Len(parts) - 1)
        ELSE parts

\* s.split(): the maximal runs of non-white-space characters.
SplitWhitespace(s) ==
    LET RECURSIVE Runs(_, _)
        Runs(t, cur) ==
            IF t = <<>> THEN (IF cur = <<>> THEN <<>> ELSE <<cur>>)
            ELSE IF Head(t) \in Whitespace
                 THEN (IF cur = <<>> THEN <<>> ELSE <<cur>>) \o Runs(Tail(t), <<>>)
                 ELSE Runs(Tail(t), Append(cur, Head(t)))
    IN  Runs(s, <<>>)

\* s.strip()
RECURSIVE LStrip(_)
LStrip(s) ==
    IF s # <<>> /\ Head(s) \in Whitespace THEN LStrip(Tail(s)) ELSE s

RECURSIVE RStrip(_)
RStrip(s) ==
    IF s # <<>> /\ s[Len(s)] \in Whitespace
    THEN RStrip(SubSeq(s, 1, Len(s) - 1))
    ELSE s

Strip(s) == RStrip(LStrip(s))

\* re.sub("[\s]+", " ", s): every run of white space becomes one space.
RECURSIVE CollapseWhitespace(_)
CollapseWhitespace(s) ==
    IF s = <<>> THEN <<>>
    ELSE IF Head(s) \in Whitespace
         THEN <<SP>> \o CollapseWhitespace(LStrip(s))
         ELSE <<Head(s)>> \o CollapseWhitespace(Tail(s))

oneline(s) == Strip(CollapseWhitespace(s))

\* int(s): Python accepts surrounding white space; anything but decimal
\* digits raises ValueError (IsInt is false).  The probes print no sign.
IsInt(s) ==
    LET t == Strip(s)
    IN  t # <<>> /\ \A i \in 1..Len(t) : IsDigit(t[i])

RECURSIVE DigitsValue(_, _)
DigitsValue(t, acc) ==
    IF t = <<>> THEN acc
    ELSE DigitsValue(Tail(t), 10 * acc + DigitVal(Head(t)))

IntOf(s) == DigitsValue(Strip(s), 0)

\* "%i" % n and "{}".format(n) for n >= 0: the decimal digits of n.
RECURSIVE IntToStr(_)
IntToStr(n) ==
    IF n < 10 THEN <<DigitChars[n + 1]>>
    ELSE Append(IntToStr(n \div 10), DigitChars[(n % 10) + 1])

\* Sorted insertion of x into the sorted list xs; sorted(xs) by insertion.
RECURSIVE InsertSorted(_, _)
InsertSorted(x, xs) ==
    IF xs = <<>> THEN <<x>>
    ELSE IF StrLess(x, Head(xs)) THEN <<x>> \o xs
    ELSE <<Head(xs)>> \o InsertSorted(x, Tail(xs))

RECURSIVE sorted(_)
sorted(xs) ==
    IF xs = <<>> THEN <<>> ELSE InsertSorted(Head(xs), sorted(Tail(xs)))

\* ------------------------------------------------------- Python values

\* A call either returns a value or raises: Ret(v) and Raised.
Ret(v) == [exc |-> FALSE, val |-> v]
Raised == [exc |-> TRUE]

\* The wrapper that return_on_error(val) puts around a function: the value
\* the function returns, or val when it raises anything.
return_on_error(val, call) == IF call.exc THEN val ELSE call.val

\* The Python values the program formats into its output: an int, a str,
\* or None.
PyInt(n) == [type |-> "int", int |-> n, str |-> <<>>]
PyStr(s) == [type |-> "str", int |-> 0, str |-> s]
PyNone == [type |-> "NoneType", int |-> 0, str |-> <<>>]

\* What "{}".format(v) prints for v.
Format(v) ==
    CASE v.type = "int" -> IntToStr(v.int)
      [] v.type = "str" -> v.str
      [] OTHER -> <<"None">>

\* ---------------------------------------------------------------- probes

\* What subprocess.check_output gives for one command: its output, or
\* OSError (the tool is missing) or CalledProcessError (nonzero exit).
Output(text) == [err |-> "none", out |-> text]
ToolMissing == [err |-> "OSError", out |-> <<>>]
NonzeroExit == [err |-> "CalledProcessError", out |-> <<>>]

\* subprocess.check_output(...) inside a function: Raised unless it succeeds.
Failed(probe) == probe.err # "none"

\* ------------------------------------------------------------ extractors

\* max_in_col without the int(...): the largest field as a string, converted
\* afterwards.
max_in_col_str(data, col_id) ==
    IF \/ data = <<>>
       \/ \E i \in 1..Len(data) :
            \/ Len(data[i]) < col_id + 1
            \/ ~IsInt(data[i][col_id + 1])
    THEN Raised
    ELSE LET vals == {data[i][col_id + 1] : i \in 1..Len(data)}
         IN  Ret(IntOf(CHOOSE m \in vals : \A v \in vals : ~StrLess(m, v)))

max_in_col(data, col_id) ==
    IF \/ data = <<>>
       \/ \E i \in 1..Len(data) :
            \/ Len(data[i]) < col_id + 1
            \/ ~IsInt(data[i][col_id + 1])
    THEN Raised
    ELSE LET vals == {IntOf(data[i][col_id + 1]) : i \in 1..Len(data)}
         IN  Ret(CHOOSE m \in vals : \A v \in vals : v <= m)

\* The atoms of the modelled cpuinfo texts that the character classes of the
\* pattern in get_short_intel_model_name match.
ParenAtoms == {"(R)", "(TM)"}
FreqAtoms == {"2.40GHz", "2.60GHz"}
IsWord(a) == a \notin Whitespace \cup ParenAtoms \cup FreqAtoms \cup {"@", ":"}

get_short_intel_model_name(model0) ==
    LET model == oneline(Remove(model0, "CPU"))
        Shape(n) ==
            /\ Len(model) >= n
            /\ model[1] = "Intel" /\ model[2] = "(R)" /\ model[3] = SP
            /\ IsWord(model[4]) /\ model[5] \in ParenAtoms /\ model[6] = SP
            /\ IsWord(model[7])
            /\ model[n - 3] = SP /\ model[n - 2] = "@" /\ model[n - 1] = SP
            /\ model[n] \in FreqAtoms
        two == Shape(13) /\ model[8] = SP /\ IsWord(model[9])
        one == Shape(11)
        family == <<model[4]>>
        number0 == IF two THEN SubSeq(model, 7, 9) ELSE SubSeq(model, 7, 7)
        number1 == IF EndsWith(number0, <<SP, "0">>)
                   THEN SubSeq(number0, 1, Len(number0) - 2)
                   ELSE number0
        number == Remove(number1, SP)
    IN  IF two \/ one THEN family \o <<"-">> \o number ELSE model

UNKNOWN == <<"UNKNOWN">>

get_cpu_model_body(probe) ==
    IF Failed(probe) THEN Raised
    ELSE LET lines == SplitLines(probe.out)
             hits == {i \in 1..Len(lines) :
                        StartsWith(lines[i], <<"model", SP, "name">>)}
         IN  IF hits = {} THEN Ret(PyNone)
             ELSE LET line == lines[CHOOSE i \in hits : \A j \in hits : i <= j]
                      parts == Split(line, ":")
                  IN  IF Len(parts) < 2 THEN Raised
                      ELSE IF StartsWith(parts[2], <<SP, "Intel">>)
                           THEN Ret(PyStr(get_short_intel_model_name(parts[2])))
                           ELSE Ret(PyStr(parts[2]))

get_cpu_model(probe) == return_on_error(PyStr(UNKNOWN), get_cpu_model_body(probe))

get_cpu_info_body(probe) ==
    IF Failed(probe) THEN Raised
    ELSE LET lines == SplitLines(probe.out)
             kept == SelectSeq(lines, LAMBDA line : ~StartsWith(line, <<"#">>))
             rows == [i \in 1..Len(kept) |-> Split(kept[i], ",")]
             c0 == max_in_col(rows, 0)
             c1 == max_in_col(rows, 1)
             c2 == max_in_col(rows, 2)
         IN  IF c0.exc \/ c1.exc \/ c2.exc THEN Raised
             ELSE Ret([cpus |-> c0.val + 1, cores |-> c1.val + 1,
                       sockets |-> c2.val + 1])

get_cpu_info(probe) ==
    return_on_error([cpus |-> 1, cores |-> 1, sockets |-> 1],
                    get_cpu_info_body(probe))

\* The first position at or after i of text that holds no atom of the set.
RECURSIVE SpanEnd(_, _, _)
SpanEnd(text, i, set) ==
    IF i <= Len(text) /\ text[i] \in set THEN SpanEnd(text, i + 1, set) ELSE i

\* re.match("MemTotal:\s+(\d+) kB", text): the pattern is tried at the start
\* of the text only.  The result is the digits of group 1, or <<>> for no
\* match.
MemTotalMatch(text) ==
    LET n == Len(text)
        ws == SpanEnd(text, 3, Whitespace)
        ds == SpanEnd(text, ws, {DigitChars[i] : i \in 1..10})
    IN  IF /\ n >= 2 /\ text[1] = "MemTotal" /\ text[2] = ":"
           /\ ws > 3 /\ ds > ws
           /\ ds + 1 <= n /\ text[ds] = SP /\ text[ds + 1] = "kB"
        THEN SubSeq(text, ws, ds - 1)
        ELSE <<>>

\* int(x * (1 - reserved)) for reserved = 0.05 and an int x >= 0.  The
\* product is a float; truncating it gives floor(95 * x / 100) for every x
\* the model reaches (and every x below 2 * 10^6, by enumeration).
ReserveAndTruncate(total_memory) == (total_memory * 95) \div 100

get_mem_info_body(probe) ==
    IF Failed(probe) THEN Raised
    ELSE LET m == MemTotalMatch(probe.out)
         IN  IF m = <<>> THEN Ret(PyInt(0))
             ELSE Ret(PyInt(ReserveAndTruncate(IntOf(m) \div 1024)))

get_mem_info(probe) == return_on_error(PyStr(<<"0">>), get_mem_info_body(probe))

get_hostname_body(probe) ==
    IF Failed(probe) THEN Raised
    ELSE LET lines == SplitLines(probe.out)
         IN  IF lines = <<>> THEN Raised
             ELSE Ret(Split(lines[1], ".")[1])

get_hostname(probe) == return_on_error(UNKNOWN, get_hostname_body(probe))


interfaces == <<"eno1", "eno2">>

\* get_ipaddr's loop with the try inside the loop: an interface whose query
\* fails is skipped.
RECURSIVE get_ipaddr_loop_skips_errors(_, _)
get_ipaddr_loop_skips_errors(ip, k) ==
    IF k > Len(interfaces)
    THEN [call |-> Ret(<<"0", ".", "0", ".", "0", ".", "0">>), queried |-> <<>>]
    ELSE LET interface == interfaces[k]
             probe == ip[interface]
             rest == get_ipaddr_loop_skips_errors(ip, k + 1)
         IN  IF Failed(probe) \/ probe.out = <<>>
             THEN [call |-> rest.call, queried |-> <<interface>> \o rest.queried]
             ELSE LET tokens == SplitWhitespace(probe.out)
                  IN  [call |-> IF Len(tokens) < 4 THEN Raised
                                ELSE Ret(Split(tokens[4], "/")[1]),
                       queried |-> <<interface>>]

\* The loop of get_ipaddr from the k-th interface on.  ip maps an interface
\* to what its query gives.  call is what the loop returns or that it
\* raises, queried the interfaces it has queried, in order.
RECURSIVE get_ipaddr_loop(_, _)
get_ipaddr_loop(ip, k) ==
    IF k > Len(interfaces)
    THEN [call |-> Ret(<<"0", ".", "0", ".", "0", ".", "0">>), queried |-> <<>>]
    ELSE LET interface == interfaces[k]
             probe == ip[interface]
         IN  IF Failed(probe)
             THEN [call |-> Raised, queried |-> <<interface>>]
             ELSE IF probe.out = <<>>
             THEN LET rest == get_ipaddr_loop(ip, k + 1)
                  IN  [call |-> rest.call,
                       queried |-> <<interface>> \o rest.queried]
             ELSE LET tokens == SplitWhitespace(probe.out)
                  IN  [call |-> IF Len(tokens) < 4 THEN Raised
                                ELSE Ret(Split(tokens[4], "/")[1]),
                       queried |-> <<interface>>]

get_ipaddr(ip) ==
    return_on_error(<<"0", ".", "0", ".", "0", ".", "0">>,
                    get_ipaddr_loop(ip, 1).call)

\* Both exceptions of the probe are caught: no accelerators.
get_gpu_names(probe) ==
    IF Failed(probe) THEN <<>>
    ELSE LET lines == SplitLines(probe.out)
         IN  [i \in 1..Len(lines) |-> Remove(lines[i], SP)]

\* template.format(**data): each replacement field of the template (an atom
\* "{key}") is replaced by the formatted value of data[key].
RECURSIVE FormatTemplate(_, _)
FormatTemplate(template, data) ==
    IF template = <<>> THEN <<>>
    ELSE (IF Head(template) \in DOMAIN data
          THEN Format(data[Head(template)])
          ELSE <<Head(template)>>)
         \o FormatTemplate(Tail(template), data)

\* get_gres_conf with enumerate counting from 1.
get_gres_conf_from_one(include_gpu_types, gpu_list, hostname) ==
    LET template ==
            <<"NodeName=", "{hostname}", SP, "Name=gpu", SP, "File=", "{file}">>
            \o (IF include_gpu_types THEN <<SP, "Type=", "{type}">> ELSE <<>>)
        data(n) ==
            [k \in {"{hostname}", "{type}", "{file}"} |->
                CASE k = "{hostname}" -> PyStr(hostname)
                  [] k = "{type}" -> PyStr(gpu_list[n])
                  [] OTHER -> PyStr(<<"/dev/nvidia">> \o IntToStr(n))]
        out_lines ==
            [i \in 1..Len(gpu_list) |-> FormatTemplate(template, data(i))]
    IN  Join(<<NL>>, out_lines)

\* get_gres_conf, given the list get_gpu_names returned and the value each
\* get_hostname call returned.
get_gres_conf(include_gpu_types, gpu_list, hostname) ==
    LET template ==
            <<"NodeName=", "{hostname}", SP, "Name=gpu", SP, "File=", "{file}">>
            \o (IF include_gpu_types THEN <<SP, "Type=", "{type}">> ELSE <<>>)
        data(n) ==
            [k \in {"{hostname}", "{type}", "{file}"} |->
                CASE k = "{hostname}" -> PyStr(hostname)
                  [] k = "{type}" -> PyStr(gpu_list[n + 1])
                  [] OTHER -> PyStr(<<"/dev/nvidia">> \o IntToStr(n))]
        out_lines ==
            [i \in 1..Len(gpu_list) |-> FormatTemplate(template, data(i - 1))]
    IN  Join(<<NL>>, out_lines)

\* itertools.groupby(xs): the runs of equal neighbours, as [key, count].
RECURSIVE groupby(_)
groupby(xs) ==
    IF xs = <<>> THEN <<>>
    ELSE LET rest == groupby(Tail(xs))
         IN  IF rest # <<>> /\ rest[1].key = Head(xs)
             THEN << [key |-> Head(xs), count |-> rest[1].count + 1] >>
                  \o Tail(rest)
             ELSE << [key |-> Head(xs), count |-> 1] >> \o rest

\* get_gres_desc with groupby applied to the unsorted list.
get_gres_desc_unsorted(include_gpu_types, gpus) ==
    LET groups == groupby(gpus)
        tokens ==
            IF include_gpu_types
            THEN [i \in 1..Len(groups) |->
                     <<"gpu", ":">> \o groups[i].key \o <<":">>
                     \o IntToStr(groups[i].count)]
            ELSE IF Len(gpus) > 0
                 THEN << <<"gpu", ":">> \o IntToStr(Len(gpus)) >>
                 ELSE <<>>
    IN  IF Len(tokens) = 0 THEN <<>>
        ELSE <<"Gres=">> \o Join(<<",">>, tokens)

\* get_gres_desc, given the list get_gpu_names returned.
get_gres_desc(include_gpu_types, gpus) ==
    LET groups == groupby(sorted(gpus))
        tokens ==
            IF include_gpu_types
            THEN [i \in 1..Len(groups) |->
                     <<"gpu", ":">> \o groups[i].key \o <<":">>
                     \o IntToStr(groups[i].count)]
            ELSE IF Len(gpus) > 0
                 THEN << <<"gpu", ":">> \o IntToStr(Len(gpus)) >>
                 ELSE <<>>
    IN  IF Len(tokens) = 0 THEN <<>>
        ELSE <<"Gres=">> \o Join(<<",">>, tokens)

\* The lists list(set(xs)) can be: the distinct elements of xs, in an order
\* the language does not fix.
SetOrders(xs) ==
    LET elems == {xs[i] : i \in 1..Len(xs)}
    IN  {order \in [1..Cardinality(elems) -> elems] :
            \A e \in elems : \E i \in DOMAIN order : order[i] = e}

\* get_features, given what get_cpu_model returned and the order in which
\* the set of accelerator names was listed.  join raises TypeError on None.
get_features(cpu_model, gpu_order) ==
    IF cpu_model.type # "str" THEN Raised
    ELSE Ret(Join(<<",">>, <<cpu_model.str>> \o gpu_order))

\* counts with the test of include_hyperthreads the wrong way round.
counts_inverted(info, include_hyperthreads) ==
    IF info.cores = 0 \/ info.sockets = 0 THEN Raised
    ELSE Ret(("{cpus}" :> PyInt(IF include_hyperthreads
                                THEN info.cores ELSE info.cpus))
             @@ ("{threads_per_core}" :> PyInt(info.cpus \div info.cores))
             @@ ("{cores_per_socket}" :> PyInt(info.cores \div info.sockets))
             @@ ("{num_sockets}" :> PyInt(info.sockets)))

\* The four entries of data that get_slurm_conf computes from cpu_info.
\* Python 2's / on two ints is floor division; it raises ZeroDivisionError
\* on a divisor 0.
counts(info, include_hyperthreads) ==
    IF info.cores = 0 \/ info.sockets = 0 THEN Raised
    ELSE Ret(("{cpus}" :> PyInt(IF include_hyperthreads
                                THEN info.cpus ELSE info.cores))
             @@ ("{threads_per_core}" :> PyInt(info.cpus \div info.cores))
             @@ ("{cores_per_socket}" :> PyInt(info.cores \div info.sockets))
             @@ ("{num_sockets}" :> PyInt(info.sockets)))

\* The template of get_slurm_conf as the source writes it, before oneline.
Indent == <<SP, SP, SP, SP, SP, SP, SP, SP>>
NodeLineSource ==
       Indent \o <<"NodeName=", "{hostname}", NL>>
    \o Indent \o <<"NodeAddr=", "{ipaddr}", NL>>
    \o Indent \o <<"CPUs=", "{cpus}", NL>>
    \o Indent \o <<"ThreadsPerCore=", "{threads_per_core}", NL>>
    \o Indent \o <<"CoresPerSocket=", "{cores_per_socket}", NL>>
    \o Indent \o <<"Sockets=", "{num_sockets}", NL>>
    \o Indent \o <<"RealMemory=", "{memory}", NL>>
    \o Indent \o <<"Feature=", "{feature}", NL>>
    \o Indent \o <<"{gres}", NL>>
    \o Indent \o <<"State=UNKNOWN", NL>>
    \o <<SP, SP, SP, SP>>

\* The last two statements of get_slurm_conf.
render_slurm_conf(data) == FormatTemplate(oneline(NodeLineSource), data)


\* ----------------------------------------------------- the probed system

MaxRows == 2     \* rows of a topology listing
MaxGpus == 3     \* accelerators of an inventory
MaxRuns == 2     \* invocations of the program on one system
MaxDrifts == 1   \* changes of the accelerator inventory during a session

\* All sequences over a set, up to a length.
SeqsUpTo(S, n) == UNION {[1..k -> S] : k \in 0..n}

\* The text made of the given lines, each with its line end.
RECURSIVE Lines(_)
Lines(ls) == IF ls = <<>> THEN <<>> ELSE Head(ls) \o <<NL>> \o Lines(Tail(ls))

\* lscpu --parse=cpu,core,socket: a comment, a row of three ids, a row that
\* lacks a column, a row with an empty field.  The rows of three ids are the
\* first row of any listing and the rows that raise one column above it.
IdTriples == {<<0, 0, 0>>, <<1, 0, 0>>, <<0, 1, 0>>, <<0, 0, 1>>}
LscpuRows ==
    {IntToStr(t[1]) \o <<",">> \o IntToStr(t[2]) \o <<",">> \o IntToStr(t[3]) :
        t \in IdTriples}
    \cup {<<"#", SP, "CPU", ",", "Core", ",", "Socket">>,
          <<"0", ",", "0">>,
          <<"1", ",", "0", ",">>}
LscpuTexts ==
    {Lines(rows) : rows \in SeqsUpTo(LscpuRows, MaxRows)}
    \cup {Lines(<<<<"9", ",", "4", ",", "0">>,
                  <<"1", "0", ",", "5", ",", "1">>,
                  <<"3", "1", ",", "1", "5", ",", "1">>,
                  <<"2", ",", "2", ",", "0">>>>),
          Lines(<<<<"0", ",", "0", ",", "0">>,
                  <<"2", ",", "1", ",", "0">>>>)}

\* /proc/meminfo: the MemTotal line first (as the kernel prints it), after
\* another line, absent, or with no number.
MemTotals == {16777216, 65536, 20480, 1023}
MemTotalLine(n) ==
    <<"MemTotal", ":", SP, SP, SP, SP>> \o IntToStr(n) \o <<SP, "kB">>
MemFreeLine == <<"MemFree", ":", SP, SP, SP, SP, "5", "1", "2", SP, "kB">>
MeminfoTexts ==
    {Lines(<<MemTotalLine(n), MemFreeLine>>) : n \in MemTotals}
    \cup {Lines(<<MemFreeLine, MemTotalLine(n)>>) : n \in MemTotals}
    \cup {Lines(<<MemFreeLine>>),
          Lines(<<<<"MemTotal", ":", SP, "unknown", SP, "kB">>>>),
          <<>>}

HostnameTexts ==
    {Lines(<<<<"node01", ".", "cluster", ".", "edu">>>>),
     Lines(<<<<"node01">>>>),
     <<>>}

\* ip -o -4 addr show dev <interface>: one line for an address, nothing for
\* an interface without one, a line of another shape.
Addr == [eno1 |-> <<"10", ".", "0", ".", "0", ".", "5">>,
         eno2 |-> <<"192", ".", "168", ".", "1", ".", "7">>]
IpLine(interface) ==
    Lines(<< <<"2", ":", SP, interface, SP, SP, SP, SP, "inet", SP>>
             \o Addr[interface]
             \o <<"/", "24", SP, "brd", SP, "10.0.0.255", SP, "scope", SP,
                  "global", SP, interface>> >>)
IpOutcomes(interface) ==
    {Output(IpLine(interface)), Output(<<>>),
     Output(Lines(<<<<interface, ":", SP, "down">>>>)),
     NonzeroExit, ToolMissing}
IpTables ==
    {[eno1 |-> a, eno2 |-> b] : a \in IpOutcomes("eno1"), b \in IpOutcomes("eno2")}

IntelE5 ==
    <<"model", SP, "name", "\t", ":", SP, "Intel", "(R)", SP, "Xeon", "(R)",
      SP, "CPU", SP, "E5-2680", SP, "0", SP, "@", SP, "2.40GHz">>
IntelGold ==
    <<"model", SP, "name", "\t", ":", SP, "Intel", "(R)", SP, "Xeon", "(R)",
      SP, "Gold", SP, "6142", SP, "CPU", SP, "@", SP, "2.60GHz">>
AmdEpyc ==
    <<"model", SP, "name", "\t", ":", SP, "AMD", SP, "EPYC", SP, "7742">>
ProcessorLine == <<"processor", "\t", ":", SP, "0">>
CpuinfoTexts ==
    {Lines(<<ProcessorLine, IntelE5>>),
     Lines(<<ProcessorLine, IntelGold, IntelE5>>),
     Lines(<<ProcessorLine, AmdEpyc>>),
     Lines(<<ProcessorLine>>),
     Lines(<<<<"model", SP, "name">>>>),
     <<>>}

\* nvidia-smi --query-gpu=name --format=csv,noheader: one name a line.
RawGpuNames ==
    {<<"T", "e", "s", "l", "a", SP, "V", "1", "0", "0">>,
     <<"T", "e", "s", "l", "a", SP, "P", "1", "0", "0">>}
NvidiaTexts == {Lines(names) : names \in SeqsUpTo(RawGpuNames, MaxGpus)}

Outcomes(texts) == {Output(t) : t \in texts} \cup {ToolMissing, NonzeroExit}

\* A node on which every probe succeeds.
Healthy ==
    [cpuinfo |-> Output(Lines(<<ProcessorLine, IntelE5>>)),
     lscpu |-> Output(Lines(<<<<"0", ",", "0", ",", "0">>,
                              <<"1", ",", "0", ",", "0">>>>)),
     meminfo |-> Output(Lines(<<MemTotalLine(65536), MemFreeLine>>)),
     hostname |-> Output(Lines(<<<<"node01", ".", "cluster", ".", "edu">>>>)),
     ip |-> [eno1 |-> Output(IpLine("eno1")), eno2 |-> Output(<<>>)],
     nvidia |-> Output(Lines(<<<<"T", "e", "s", "l", "a", SP, "V", "1", "0", "0">>>>))]

\* The systems the program is run on: the healthy node with one of its data
\* sources giving any of its modelled outcomes, and every combination of
\* data sources whose tool is missing.
Systems ==
    {[Healthy EXCEPT !.cpuinfo = p] : p \in Outcomes(CpuinfoTexts)}
    \cup {[Healthy EXCEPT !.lscpu = p] : p \in Outcomes(LscpuTexts)}
    \cup {[Healthy EXCEPT !.meminfo = p] : p \in Outcomes(MeminfoTexts)}
    \cup {[Healthy EXCEPT !.hostname = p] : p \in Outcomes(HostnameTexts)}
    \cup {[Healthy EXCEPT !.ip = t] : t \in IpTables}
    \cup {[Healthy EXCEPT !.nvidia = p] : p \in Outcomes(NvidiaTexts)}
    \cup {[cpuinfo |-> IF "cpuinfo" \in down THEN ToolMissing ELSE Healthy.cpuinfo,
           lscpu |-> IF "lscpu" \in down THEN ToolMissing ELSE Healthy.lscpu,
           meminfo |-> IF "meminfo" \in down THEN ToolMissing ELSE Healthy.meminfo,
           hostname |-> IF "hostname" \in down THEN ToolMissing ELSE Healthy.hostname,
           ip |-> IF "ip" \in down
                  THEN [eno1 |-> ToolMissing, eno2 |-> ToolMissing]
                  ELSE Healthy.ip,
           nvidia |-> IF "nvidia" \in down THEN ToolMissing ELSE Healthy.nvidia] :
          down \in SUBSET {"cpuinfo", "lscpu", "meminfo", "hostname", "ip", "nvidia"}}

\* The command lines: the file selector and the two flags.
Files == {"slurm.conf", "gres.conf", "node.conf"}
Args == [file : Files, include_gpu_types : BOOLEAN, include_hyperthreads : BOOLEAN]

\* ------------------------------------------------------------------ state

VARIABLES
    env,        \* what each probe gives on this system now
    args,       \* the parsed command line
    pc,         \* where the program is
    cpu_info,   \* get_slurm_conf's cpu_info
    data,       \* get_slurm_conf's data, as far as it is evaluated
    queried,    \* the interfaces get_ipaddr has queried in this run, in order
    seen,       \* what each get_gpu_names call of this run returned, in order
    printed,    \* what the run has printed, without print's line end
    error,      \* the exception that ended the run, "" for none
    run,        \* the number of this run
    previous,   \* [printed, error] of the run before
    drifts      \* how often the accelerator inventory has changed

vars == <<env, args, pc, cpu_info, data, queried, seen, printed, error, run,
          previous, drifts>>

NoData == [k \in {} |-> PyNone]
NoCpuInfo == [cpus |-> 0, cores |-> 0, sockets |-> 0]

Init ==
    /\ env \in Systems
    /\ args \in Args
    /\ pc = "main"
    /\ cpu_info = NoCpuInfo
    /\ data = NoData
    /\ queried = <<>>
    /\ seen = <<>>
    /\ printed = <<>>
    /\ error = ""
    /\ run = 1
    /\ previous = [printed |-> <<>>, error |-> ""]
    /\ drifts = 0

Put(key, value) == data' = data @@ (key :> value)

\* ---------------------------------------------------------------- actions

\* __main__ with file "slurm.conf": get_slurm_conf is entered and calls
\* get_cpu_info.
MainSlurmConf ==
    /\ pc = "main"
    /\ args.file = "slurm.conf"
    /\ cpu_info' = get_cpu_info(env.lscpu)
    /\ pc' = "hostname"
    /\ UNCHANGED <<env, args, data, queried, seen, printed, error, run,
                   previous, drifts>>

\* "hostname" : get_hostname()
CallGetHostname ==
    /\ pc = "hostname"
    /\ Put("{hostname}", PyStr(get_hostname(env.hostname)))
    /\ pc' = "ipaddr"
    /\ UNCHANGED <<env, args, cpu_info, queried, seen, printed, error, run,
                   previous, drifts>>

\* "ipaddr" : get_ipaddr()
CallGetIpaddr ==
    /\ pc = "ipaddr"
    /\ Put("{ipaddr}", PyStr(get_ipaddr(env.ip)))
    /\ queried' = get_ipaddr_loop(env.ip, 1).queried
    /\ pc' = "counts"
    /\ UNCHANGED <<env, args, cpu_info, seen, printed, error, run, previous,
                   drifts>>

\* "cpus", "threads_per_core", "cores_per_socket", "num_sockets"
ComputeCounts ==
    /\ pc = "counts"
    /\ LET call == counts(cpu_info, args.include_hyperthreads)
       IN  IF call.exc
           THEN /\ error' = "ZeroDivisionError"
                /\ pc' = "raised"
                /\ UNCHANGED data
           ELSE /\ data' = data @@ call.val
                /\ pc' = "memory"
                /\ UNCHANGED error
    /\ UNCHANGED <<env, args, cpu_info, queried, seen, printed, run, previous,
                   drifts>>

\* "memory" : get_mem_info()
CallGetMemInfo ==
    /\ pc = "memory"
    /\ Put("{memory}", get_mem_info(env.meminfo))
    /\ pc' = "feature"
    /\ UNCHANGED <<env, args, cpu_info, queried, seen, printed, error, run,
                   previous, drifts>>

\* "feature" : get_features(), which calls get_cpu_model and get_gpu_names.
CallGetFeatures ==
    /\ pc = "feature"
    /\ LET gpus == get_gpu_names(env.nvidia)
       IN  /\ seen' = Append(seen, gpus)
           /\ \E gpu_order \in SetOrders(gpus) :
                LET call == get_features(get_cpu_model(env.cpuinfo), gpu_order)
                IN  IF call.exc
                    THEN /\ error' = "TypeError"
                         /\ pc' = "raised"
                         /\ UNCHANGED data
                    ELSE /\ Put("{feature}", PyStr(call.val))
                         /\ pc' = "gres"
                         /\ UNCHANGED error
    /\ UNCHANGED <<env, args, cpu_info, queried, printed, run, previous, drifts>>

\* "gres" : get_gres_desc(include_gpu_types), which calls get_gpu_names.
CallGetGresDesc ==
    /\ pc = "gres"
    /\ LET gpus == get_gpu_names(env.nvidia)
       IN  /\ seen' = Append(seen, gpus)
           /\ Put("{gres}", PyStr(get_gres_desc(args.include_gpu_types, gpus)))
    /\ pc' = "format"
    /\ UNCHANGED <<env, args, cpu_info, queried, printed, error, run, previous,
                   drifts>>

\* The template is formatted, get_slurm_conf returns and __main__ prints.
PrintSlurmConf ==
    /\ pc = "format"
    /\ printed' = render_slurm_conf(data)
    /\ pc' = "done"
    /\ UNCHANGED <<env, args, cpu_info, data, queried, seen, error, run,
                   previous, drifts>>

\* __main__ with file "gres.conf": get_gres_conf runs and its result is
\* printed.
MainGresConf ==
    /\ pc = "main"
    /\ args.file = "gres.conf"
    /\ LET gpu_list == get_gpu_names(env.nvidia)
       IN  /\ seen' = Append(seen, gpu_list)
           /\ printed' = get_gres_conf(args.include_gpu_types, gpu_list,
                                       get_hostname(env.hostname))
    /\ pc' = "done"
    /\ UNCHANGED <<env, args, cpu_info, data, queried, error, run, previous,
                   drifts>>

\* __main__ with any other file: raise Exception.
MainUnknownFile ==
    /\ pc = "main"
    /\ args.file \notin {"slurm.conf", "gres.conf"}
    /\ error' = "Exception"
    /\ pc' = "raised"
    /\ UNCHANGED <<env, args, cpu_info, data, queried, seen, printed, run,
                   previous, drifts>>

\* The program is run again with the same command line.
RunAgain ==
    /\ pc \in {"done", "raised"}
    /\ run < MaxRuns
    /\ run' = run + 1
    /\ previous' = [printed |-> printed, error |-> error]
    /\ pc' = "main"
    /\ cpu_info' = NoCpuInfo
    /\ data' = NoData
    /\ queried' = <<>>
    /\ seen' = <<>>
    /\ printed' = <<>>
    /\ error' = ""
    /\ UNCHANGED <<env, args, drifts>>

\* The system changes while get_slurm_conf runs: an accelerator drops out of
\* what nvidia-smi lists, or nvidia-smi starts to fail.  The change is taken
\* between the two get_gpu_names calls of the run, the one place where the
\* run can tell: before the first call it is a run on the changed system,
\* after the second call the run does not ask again.
DropLine(text, i) ==
    LET lines == SplitLines(text)
    IN  Lines([j \in 1..(Len(lines) - 1) |->
                  IF j < i THEN lines[j] ELSE lines[j + 1]])

AcceleratorLost ==
    /\ pc = "gres"
    /\ drifts < MaxDrifts
    /\ ~Failed(env.nvidia)
    /\ env.nvidia.out # <<>>
    /\ \/ env' = [env EXCEPT !.nvidia = NonzeroExit]
       \/ \E i \in 1..Len(SplitLines(env.nvidia.out)) :
            env' = [env EXCEPT !.nvidia = Output(DropLine(env.nvidia.out, i))]
    /\ drifts' = drifts + 1
    /\ UNCHANGED <<args, pc, cpu_info, data, queried, seen, printed, error, run,
                   previous>>

Next ==
    \/ MainSlurmConf
    \/ CallGetHostname
    \/ CallGetIpaddr
    \/ ComputeCounts
    \/ CallGetMemInfo
    \/ CallGetFeatures
    \/ CallGetGresDesc
    \/ PrintSlurmConf
    \/ MainGresConf
    \/ MainUnknownFile
    \/ RunAgain
    \/ AcceleratorLost

Spec == Init /\ [][Next]_vars

\* ------------------------------------------------------------ the claims

SlurmDone == pc = "done" /\ args.file = "slurm.conf"
GresDone == pc = "done" /\ args.file = "gres.conf"

\* The value of a field of the node line: what follows key, up to the next
\* space.
FieldOf(line, key) ==
    LET i == CHOOSE j \in 1..Len(line) : line[j] = key
    IN  Split(SubSeq(line, i + 1, Len(line)), SP)[1]

HasDoubleSpace(line) ==
    \E i \in 1..(Len(line) - 1) : line[i] = SP /\ line[i + 1] = SP

TeslaV100 == <<"T", "e", "s", "l", "a", "V", "1", "0", "0">>
TeslaP100 == <<"T", "e", "s", "l", "a", "P", "1", "0", "0">>
ZeroAddr == <<"0", ".", "0", ".", "0", ".", "0">>

\* C1: the node line that get_slurm_conf returns holds no two consecutive
\* spaces, whatever the fields and flags; when the accelerator inventory is
\* empty (no Gres field) the line ends "Feature=<tag> State=UNKNOWN", with
\* exactly one space before State=UNKNOWN.
C1_NoDoubleSpace ==
    SlurmDone =>
        /\ ~HasDoubleSpace(printed)
        /\ data["{gres}"].str = <<>> =>
              EndsWith(printed,
                       <<"Feature=">> \o data["{feature}"].str
                       \o <<SP, "State=UNKNOWN">>)

\* C2: a run ends abnormally exactly when the file selector is neither
\* "slurm.conf" nor "gres.conf"; with a recognized selector every outcome of
\* the probes gives a printed text, and a data source that failed shows as its
\* extractor's fallback value.
C2_AbnormalOnlyForUnknownFile ==
    /\ pc = "raised" => args.file \notin {"slurm.conf", "gres.conf"}
    /\ pc = "done" => args.file \in {"slurm.conf", "gres.conf"}
    /\ SlurmDone =>
         /\ Failed(env.hostname) => data["{hostname}"].str = UNKNOWN
         /\ Failed(env.ip["eno1"]) => data["{ipaddr}"].str = ZeroAddr
         /\ Failed(env.lscpu) => cpu_info = [cpus |-> 1, cores |-> 1, sockets |-> 1]
         /\ Failed(env.meminfo) => Format(data["{memory}"]) = <<"0">>
         /\ Failed(env.cpuinfo) => StartsWith(data["{feature}"].str, UNKNOWN)

\* The number of elements of xs that equal x.
Occurrences(xs, x) == Cardinality({i \in 1..Len(xs) : xs[i] = x})

\* The distinct elements of xs in increasing order.
Ascending(xs) ==
    LET names == {xs[i] : i \in 1..Len(xs)}
    IN  CHOOSE ord \in [1..Cardinality(names) -> names] :
            \A i, j \in 1..Cardinality(names) :
                i < j => StrLess(ord[i], ord[j])

ExpectedGres(include_gpu_types, gpus) ==
    IF gpus = <<>> THEN <<>>
    ELSE IF include_gpu_types
    THEN LET ord == Ascending(gpus)
         IN  <<"Gres=">>
             \o Join(<<",">>,
                     [i \in 1..Len(ord) |->
                         <<"gpu", ":">> \o ord[i] \o <<":">>
                         \o IntToStr(Occurrences(gpus, ord[i]))])
    ELSE <<"Gres=", "gpu", ":">> \o IntToStr(Len(gpus))

\* C3: for the inventory its get_gpu_names call returned, get_gres_desc
\* returns "" when the inventory is empty; else with include_gpu_types
\* "Gres=" and one token gpu:<name>:<count> per distinct name, in increasing
\* order of name, comma-joined, <count> the occurrences of the name; and
\* without include_gpu_types "Gres=gpu:<total>".  [TeslaV100, TeslaV100,
\* TeslaP100] gives Gres=gpu:TeslaP100:1,gpu:TeslaV100:2 and Gres=gpu:3.
C3_GresDesc ==
    "{gres}" \in DOMAIN data =>
        LET gres == data["{gres}"].str
            gpus == seen[2]
        IN  /\ gres = ExpectedGres(args.include_gpu_types, gpus)
            /\ gpus = <<TeslaV100, TeslaV100, TeslaP100>> =>
                 gres = IF args.include_gpu_types
                        THEN <<"Gres=", "gpu", ":">> \o TeslaP100
                             \o <<":", "1", ",", "gpu", ":">> \o TeslaV100
                             \o <<":", "2">>
                        ELSE <<"Gres=", "gpu", ":", "3">>

C3_Witness ==
    /\ "{gres}" \in DOMAIN data
    /\ args.include_gpu_types
    /\ seen[2] = <<TeslaV100, TeslaV100, TeslaP100>>

\* floor(a / b) for a >= 0 and b > 0.
FloorDiv(a, b) == CHOOSE q \in 0..a : q * b <= a /\ a < (q + 1) * b

\* C4: in the node line, for the topology get_cpu_info returned, CPUs is
\* cores without include_hyperthreads and cpus with it, ThreadsPerCore is
\* floor(cpus / cores), CoresPerSocket is floor(cores / sockets) and Sockets
\* is sockets.  cpus=32, cores=16, sockets=2 without include_hyperthreads
\* gives CPUs=16 ThreadsPerCore=2 CoresPerSocket=8 Sockets=2.
C4_Counts ==
    SlurmDone =>
        LET Field(key) == FieldOf(printed, key)
        IN  /\ \A key \in {"CPUs=", "ThreadsPerCore=", "CoresPerSocket=",
                           "Sockets="} : IsInt(Field(key))
            /\ IntOf(Field("CPUs=")) =
                 IF args.include_hyperthreads THEN cpu_info.cpus
                 ELSE cpu_info.cores
            /\ IntOf(Field("ThreadsPerCore=")) =
                 FloorDiv(cpu_info.cpus, cpu_info.cores)
            /\ IntOf(Field("CoresPerSocket=")) =
                 FloorDiv(cpu_info.cores, cpu_info.sockets)
            /\ IntOf(Field("Sockets=")) = cpu_info.sockets
            /\ (/\ cpu_info = [cpus |-> 32, cores |-> 16, sockets |-> 2]
                /\ ~args.include_hyperthreads) =>
                 /\ Field("CPUs=") = <<"1", "6">>
                 /\ Field("ThreadsPerCore=") = <<"2">>
                 /\ Field("CoresPerSocket=") = <<"8">>
                 /\ Field("Sockets=") = <<"2">>

C4_Witness ==
    /\ SlurmDone
    /\ cpu_info = [cpus |-> 32, cores |-> 16, sockets |-> 2]
    /\ ~args.include_hyperthreads

\* C5: when the rows of the topology listing that do not start with '#' are
\* three integers each (and there is such a row), each count get_cpu_info
\* returns is the largest value of its column plus one; for any other
\* listing, and for a failed probe, it returns cpus=1, cores=1, sockets=1.
\* So every count is at least 1 and get_slurm_conf divides by no zero.
C5_CpuInfo ==
    (args.file = "slurm.conf" /\ pc # "main") =>
        LET lines == SplitLines(env.lscpu.out)
            kept == SelectSeq(lines, LAMBDA line : ~StartsWith(line, <<"#">>))
            row(i) == Split(kept[i], ",")
            wellformed ==
                /\ ~Failed(env.lscpu)
                /\ kept # <<>>
                /\ \A i \in 1..Len(kept) :
                     /\ Len(row(i)) = 3
                     /\ \A c \in 1..3 : IsInt(row(i)[c])
            MaxPlusOne(n, c) ==
                /\ \E i \in 1..Len(kept) : IntOf(row(i)[c]) + 1 = n
                /\ \A i \in 1..Len(kept) : IntOf(row(i)[c]) + 1 <= n
        IN  /\ wellformed =>
                 /\ MaxPlusOne(cpu_info.cpus, 1)
                 /\ MaxPlusOne(cpu_info.cores, 2)
                 /\ MaxPlusOne(cpu_info.sockets, 3)
            /\ ~wellformed =>
                 cpu_info = [cpus |-> 1, cores |-> 1, sockets |-> 1]
            /\ cpu_info.cpus >= 1 /\ cpu_info.cores >= 1
            /\ cpu_info.sockets >= 1
            /\ error # "ZeroDivisionError"

C5_Witness ==
    /\ pc = "memory"
    /\ env.lscpu = Output(Lines(<<<<"#", SP, "CPU", ",", "Core", ",", "Socket">>,
                                  <<"0", ",", "1", ",", "0">>>>))
    /\ cpu_info = [cpus |-> 1, cores |-> 2, sockets |-> 1]

\* C6: when the memory probe's text holds a line "MemTotal: <N> kB", in
\* whatever line of the text, get_mem_info's result is
\* floor((N div 1024) * 0.95) (15564 for N=16777216, 60 for N=65536); for a
\* text with no such line and for a failed probe it prints as 0.
C6_MemTotalAnywhere ==
    "{memory}" \in DOMAIN data =>
        LET lines == SplitLines(env.meminfo.out)
            found == {n \in MemTotals :
                        \E i \in 1..Len(lines) : lines[i] = MemTotalLine(n)}
            memory == Format(data["{memory}"])
        IN  /\ \A n \in found : IntOf(memory) = FloorDiv((n \div 1024) * 95, 100)
            /\ 16777216 \in found => memory = <<"1", "5", "5", "6", "4">>
            /\ 65536 \in found => memory = <<"6", "0">>
            /\ found = {} => memory = <<"0">>

\* C7: get_ipaddr queries eno1, then eno2, a later interface only after every
\* earlier one gave empty output; it returns the address in the output of
\* the first interface whose output is not empty, and 0.0.0.0 when every
\* interface gave empty output or a query failed.
C7_Ipaddr ==
    "{ipaddr}" \in DOMAIN data =>
        LET n == Len(queried)
            last == queried[n]
            result == data["{ipaddr}"].str
            Empty(interface) == env.ip[interface] = Output(<<>>)
        IN  /\ n \in 1..Len(interfaces)
            /\ queried = SubSeq(interfaces, 1, n)
            /\ \A i \in 1..(n - 1) : Empty(queried[i])
            /\ Empty(last) => n = Len(interfaces) /\ result = ZeroAddr
            /\ env.ip[last] = Output(IpLine(last)) => result = Addr[last]
            /\ Failed(env.ip[last]) => result = ZeroAddr

C7_Witness ==
    /\ "{ipaddr}" \in DOMAIN data
    /\ queried = <<"eno1", "eno2">>
    /\ data["{ipaddr}"].str = <<"192", ".", "168", ".", "1", ".", "7">>

\* C8: for an inventory of k accelerators get_gres_conf returns k lines joined
\* by line ends, with no line end after the last ("" for k = 0); line n
\* (from 0, in the order of the probe's report) is "NodeName=<hostname>
\* Name=gpu File=/dev/nvidia<n>", followed by " Type=<name of accelerator n>"
\* exactly when include_gpu_types is set.
C8_GresConf ==
    GresDone =>
        LET gpu_list == seen[1]
            k == Len(gpu_list)
            lines == Split(printed, NL)
            Line(n) ==
                <<"NodeName=">> \o get_hostname(env.hostname)
                \o <<SP, "Name=gpu", SP, "File=", "/dev/nvidia">> \o IntToStr(n)
                \o (IF args.include_gpu_types
                    THEN <<SP, "Type=">> \o gpu_list[n + 1] ELSE <<>>)
        IN  IF k = 0 THEN printed = <<>>
            ELSE /\ Len(lines) = k
                 /\ \A n \in 0..(k - 1) : lines[n + 1] = Line(n)
                 /\ FieldOf(lines[1], "File=") = <<"/dev/nvidia", "0">>

C8_Witness ==
    /\ GresDone
    /\ args.include_gpu_types
    /\ seen[1] = <<TeslaV100, TeslaP100, TeslaV100>>

\* C9: with the same probe outputs and the same options, two invocations
\* print the same bytes (and end the same way).
C9_Deterministic ==
    (run > 1 /\ pc \in {"done", "raised"} /\ drifts = 0) =>
        /\ printed = previous.printed
        /\ error = previous.error

\* C10: in one get_slurm_conf run the accelerator names listed in Feature
\* after the CPU model tag are the type names of the Gres tokens (with
\* include_gpu_types), and Feature lists an accelerator name exactly when
\* there is a Gres field.
C10_FeatureMatchesGres ==
    SlurmDone =>
        LET feature == Split(data["{feature}"].str, ",")
            gres == data["{gres}"].str
            tokens == IF gres = <<>> THEN <<>>
                      ELSE Split(SubSeq(gres, 2, Len(gres)), ",")
            in_feature == {feature[i] : i \in 2..Len(feature)}
            in_gres == {Split(tokens[i], ":")[2] : i \in 1..Len(tokens)}
        IN  /\ args.include_gpu_types => in_feature = in_gres
            /\ in_feature # {} <=> gres # <<>>

====
